---- MODULE Spec2Model ----
(***************************************************************************)
(* Model of the Rwanda malaria dashboard (src/main_simplified.py).         *)
(*                                                                         *)
(* The program is a Streamlit script: every user interaction runs the      *)
(* script from top to bottom (SimplifiedDashboard() and run()), single     *)
(* threaded, against st.session_state, which survives from one run to the  *)
(* next.  One action of the model is one script run.  The state is the     *)
(* two tables the loaders return, st.session_state, and what the last run  *)
(* put on the page (view), which holds the locals of the overview cards:   *)
(* the current and previous period tables, the per-entity change records   *)
(* and the two ranked lists.  utils_call is the last call of a function   *)
(* of src/utils.py, with its arguments and its result.                     *)
(*                                                                         *)
(* Numbers are integers.  A quotient (change_pct, a column mean) is kept   *)
(* as an exact fraction [num, den] in lowest terms with den > 0.           *)
(***************************************************************************)
EXTENDS Integers, Sequences, FiniteSets, TLC

VARIABLES district_table, sector_table, session_state, view, utils_call

vars == <<district_table, sector_table, session_state, view, utils_call>>

----------------------------------------------------------------------------
(* Bounds of the input family.                                             *)

\* measure values range over -1..MaxVal
MaxVal == 2

\* a period holds at most MaxEntities entities
MaxEntities == 4

\* nlargest(3, 'change') / nsmallest(3, 'change')
TopK == 3

Vals == (-1)..MaxVal

\* utils.calculate_percentage_change is called with a current value over
\* -MaxAmount..MaxAmount and a previous value over -MaxDivisor..MaxDivisor
\* or one of -100, 100
MaxAmount == 110

MaxDivisor == 3

\* utils.get_month_name is called with a month over -MaxMonth..MaxMonth
MaxMonth == 14

----------------------------------------------------------------------------
(* Arithmetic helpers.                                                     *)

Abs(x) == IF x < 0 THEN -x ELSE x

RECURSIVE GCD(_, _)
GCD(a, b) == IF b = 0 THEN a ELSE GCD(b, a % b)

\* the fraction n / d, d > 0, in lowest terms
Rat(n, d) == LET g == GCD(Abs(n), d) IN [num |-> n \div g, den |-> d \div g]

RatZero == [num |-> 0, den |-> 1]

RatSub(p, q) == Rat(p.num * q.den - q.num * p.den, p.den * q.den)

Min(a, b) == IF a < b THEN a ELSE b

\* the fraction n / d, d # 0, in lowest terms
RatDiv(n, d) == IF d < 0 THEN Rat(-n, -d) ELSE Rat(n, d)

Digits == <<"0", "1", "2", "3", "4", "5", "6", "7", "8", "9">>

RECURSIVE NatToString(_)
NatToString(n) ==
    IF n < 10 THEN Digits[n + 1] ELSE NatToString(n \div 10) \o Digits[(n % 10) + 1]

\* str(n) of an int: its decimal digits, after a minus sign when negative
IntToString(n) == IF n < 0 THEN "-" \o NatToString(-n) ELSE NatToString(n)

----------------------------------------------------------------------------
(* src/utils.py                                                            *)

\* MONTH_NAMES: the value of key m is MonthNames[m]
MonthNames ==
    <<"Jan", "Feb", "Mar", "Apr", "May", "Jun",
      "Jul", "Aug", "Sep", "Oct", "Nov", "Dec">>

\* variant: looks the month up from 0
GetMonthNameZeroBased(month) ==
    IF month + 1 \in DOMAIN MonthNames THEN MonthNames[month + 1] ELSE IntToString(month)

\* get_month_name: MONTH_NAMES.get(month, str(month))
GetMonthName(month) ==
    IF month \in DOMAIN MonthNames THEN MonthNames[month] ELSE IntToString(month)

\* variant: guards on previous > 0, as the ranking's inline computation does
CalculatePercentageChangePositiveGuard(current, previous) ==
    IF previous > 0 THEN RatDiv((current - previous) * 100, previous) ELSE RatZero

\* calculate_percentage_change
CalculatePercentageChange(current, previous) ==
    IF previous = 0 THEN RatZero
    ELSE RatDiv((current - previous) * 100, previous)

----------------------------------------------------------------------------
(* Tables: a sequence of rows, each row a function from column name to     *)
(* value (pandas DataFrame), together with the table's column names.       *)

\* data[(data['year'] == y) & (data['month'] == m)]: boolean-mask selection
\* keeps the rows satisfying the mask, in order
PeriodRows(rows, y, m) ==
    LET InPeriod(r) == r["year"] = y /\ r["month"] = m
    IN SelectSeq(rows, InPeriod)

RECURSIVE Unique(_)
\* Series.unique(): the distinct values in order of first appearance
Unique(s) ==
    IF s = <<>> THEN <<>>
    ELSE LET init == Unique(SubSeq(s, 1, Len(s) - 1))
             last == s[Len(s)]
         IN IF \E i \in 1..Len(init) : init[i] = last THEN init
            ELSE Append(init, last)

RECURSIVE Column(_, _)
\* data[col]: the column's values, row by row
Column(rows, col) ==
    IF Len(rows) = 0 THEN <<>> ELSE <<Head(rows)[col]>> \o Column(Tail(rows), col)

RECURSIVE SumSeq(_)
SumSeq(s) == IF s = <<>> THEN 0 ELSE Head(s) + SumSeq(Tail(s))

\* Series.sum()
ColumnSum(rows, col) == SumSeq(Column(rows, col))

\* Series.mean() of a non-empty column
ColumnMean(rows, col) == Rat(ColumnSum(rows, col), Len(rows))

\* the values of a set of integers in increasing order
RECURSIVE SortedAsc(_)
SortedAsc(S) ==
    IF S = {} THEN <<>>
    ELSE LET m == CHOOSE x \in S : \A y \in S : x <= y
         IN <<m>> \o SortedAsc(S \ {m})

RECURSIVE Reverse(_)
Reverse(s) == IF Len(s) = 0 THEN <<>> ELSE Append(Reverse(Tail(s)), Head(s))

----------------------------------------------------------------------------
(* The input family: what the two loaders return.                         *)
(*                                                                         *)
(* A dataset is drawn from a seed: a current period, and for each entity   *)
(* its value in the current period and, when it has a row there, its       *)
(* value in the calendar month before.  A dataset of one entity takes      *)
(* every pair of values over Vals; in a dataset of several entities each   *)
(* entity takes a pair of CorePairs (a rise, a fall, or no row in the      *)
(* previous month).  Datasets dated January 2024 have their previous       *)
(* month in another year; the other months of 2024 are covered by          *)
(* datasets of one entity.  A dataset of one entity carries one more row,  *)
(* a year older than its previous period.  A dataset of several entities   *)
(* whose first entity has a row in the previous month holds there the row  *)
(* of one more entity, which has no row in the current period.  Every      *)
(* measure column takes every value of Vals: a row of seed value v holds   *)
(* v, Flip(v) and Shift(v) in its columns.                                 *)

DistrictNames == <<"Bugesera", "Gasabo", "Huye", "Kayonza", "Musanze", "Rubavu">>

\* sector names repeat across districts: the first two entities are both
\* called Remera
SectorNames == <<"Remera", "Remera", "Tumba", "Mukarange", "Muhoza", "Gisenyi">>

SectorParents == <<"Gasabo", "Ngoma", "Huye", "Kayonza", "Musanze", "Rubavu">>

Flip(v) == MaxVal - 1 - v

Shift(v) == IF v = MaxVal THEN -1 ELSE v + 1

\* months since year 0, and back: the calendar the seeds are dated with
PeriodIndex(y, m) == y * 12 + (m - 1)

PeriodAt(k) == [year |-> k \div 12, month |-> (k % 12) + 1]

BasePeriod == [year |-> 2024, month |-> 1]

SeedPeriods == {[year |-> 2024, month |-> m] : m \in 1..12}

\* prev is <<>> when the entity has no row in the previous month
AllPairs == {[cur |-> c, prev |-> p] : c \in Vals, p \in {<<>>} \cup {<<v>> : v \in Vals}}

CorePairs == {[cur |-> 1, prev |-> p] : p \in {<<>>, <<0>>, <<2>>}}

EntitySeqs ==
    [1..1 -> AllPairs] \cup UNION {[1..n -> CorePairs] : n \in 2..MaxEntities}

Seeds ==
    {[period |-> p, ents |-> e] : p \in {BasePeriod}, e \in EntitySeqs}
        \cup {[period |-> p, ents |-> e] : p \in SeedPeriods \ {BasePeriod},
                                           e \in [1..1 -> CorePairs]}

DistrictRow(i, y, m, v) ==
    [District |-> DistrictNames[i], year |-> y, month |-> m]
        @@ ("all cases" :> v) @@ ("Severe cases/Deaths" :> Flip(v))
        @@ ("all cases incidence" :> Shift(v))

SectorRow(i, y, m, v) ==
    [Sector |-> SectorNames[i], District |-> SectorParents[i], year |-> y, month |-> m]
        @@ ("Simple malaria cases" :> v) @@ ("incidence" :> Shift(v))

DistrictColumns ==
    {"District", "year", "month", "all cases", "Severe cases/Deaths", "all cases incidence"}

SectorColumns ==
    {"Sector", "District", "year", "month", "Simple malaria cases", "incidence"}

\* the rows of a seed, oldest period first; the previous period lists the
\* entities in the reverse of the current period's order, after the row of
\* an entity that has left by the current period, which a dataset of
\* several entities holds when its first entity has a previous row
SeedRows(seed, Row(_, _, _, _)) ==
    LET n    == Len(seed.ents)
        cur  == seed.period
        prev == PeriodAt(PeriodIndex(cur.year, cur.month) - 1)
        old  == IF n = 1 THEN <<Row(1, prev.year - 1, prev.month, 1)>> ELSE <<>>
        HasPrev(i) == seed.ents[i].prev # <<>>
        gone == IF n > 1 /\ HasPrev(1) THEN <<Row(n + 1, prev.year, prev.month, 1)>>
                ELSE <<>>
        prevAll == [i \in 1..n |-> n + 1 - i]
        prevIdx == SelectSeq(prevAll, HasPrev)
    IN old \o gone
       \o [k \in 1..Len(prevIdx) |->
             Row(prevIdx[k], prev.year, prev.month, seed.ents[prevIdx[k]].prev[1])]
       \o [i \in 1..n |-> Row(i, cur.year, cur.month, seed.ents[i].cur)]

DistrictTable(seed) == [columns |-> DistrictColumns, rows |-> SeedRows(seed, DistrictRow)]

SectorTable(seed) == [columns |-> SectorColumns, rows |-> SeedRows(seed, SectorRow)]

\* a loader that failed returns None in place of the table
NoData == [none |-> TRUE]

\* a data file of no rows
EmptyDistrictTable == [columns |-> DistrictColumns, rows |-> <<>>]

EmptySectorTable == [columns |-> SectorColumns, rows |-> <<>>]

----------------------------------------------------------------------------
(* st.session_state: a function from the keys present to their values.    *)

\* st.session_state[key] = value
Put(state, key, value) == (key :> value) @@ state

EmptyState == [k \in {} |-> 0]

\* variant: resets both keys on every construction
InitializeSessionStateAlways(state) ==
    Put(Put(state, "admin_level", "districts"), "current_page", "dashboard")

\* SimplifiedDashboard._initialize_session_state
InitializeSessionState(state) ==
    LET s1 == IF "admin_level" \notin DOMAIN state
              THEN Put(state, "admin_level", "districts") ELSE state
    IN IF "current_page" \notin DOMAIN s1
       THEN Put(s1, "current_page", "dashboard") ELSE s1

AdminLevels == <<"districts", "sectors">>

\* SimplifiedDashboard.load_data: the table of the selected admin level
LoadData(state) ==
    IF state["admin_level"] = "districts" THEN district_table ELSE sector_table

\* SimplifiedDashboard._get_available_metrics: the dict as the sequence of
\* its items, in insertion order
GetAvailableMetrics(data) ==
    IF "all cases" \in data.columns /\ "Severe cases/Deaths" \in data.columns
    THEN << [key |-> "all cases", label |-> "Total Cases"],
            [key |-> "Severe cases/Deaths", label |-> "Severe Cases/Deaths"],
            [key |-> "all cases incidence", label |-> "Cases Incidence Rate"] >>
    ELSE IF "Simple malaria cases" \in data.columns
    THEN << [key |-> "Simple malaria cases", label |-> "Simple Malaria Cases"],
            [key |-> "incidence", label |-> "Incidence Rate"] >>
    ELSE << [key |-> "Population", label |-> "Population"] >>

MetricKeys(options) == [i \in 1..Len(options) |-> options[i].key]

Range(s) == {s[i] : i \in 1..Len(s)}

\* what a selectbox over no options returns (None), and the maximum of an
\* empty column (NaN): a value that equals the year or month of no row
NoSelection == 0

\* st.selectbox(label, options): one of the options, None when there is none
Selectbox(options) == IF Len(options) = 0 THEN {NoSelection} ELSE Range(options)

\* sorted(data['year'].unique(), reverse=True)
AvailableYears(data) == Reverse(SortedAsc(Range(Column(data.rows, "year"))))

\* sorted(data[data['year'] == selected_year]['month'].unique())
AvailableMonths(data, selected_year) ==
    LET InYear(r) == r["year"] = selected_year
    IN SortedAsc(Range(Column(SelectSeq(data.rows, InYear), "month")))

\* render_global_filters, after the three selectboxes returned: the eight
\* session-state keys it stores
StoreFilters(state, selected_year, selected_month, selected_metric, metric_options) ==
    LET level == state["admin_level"]
        s1 == Put(state, "dashboard_year_" \o level, selected_year)
        s2 == Put(s1, "dashboard_month_" \o level, selected_month)
        s3 == Put(s2, "dashboard_metric_" \o level, selected_metric)
        s4 == Put(s3, "dashboard_metric_options_" \o level, metric_options)
        s5 == Put(s4, "dashboard_year", selected_year)
        s6 == Put(s5, "dashboard_month", selected_month)
        s7 == Put(s6, "dashboard_metric", selected_metric)
    IN Put(s7, "dashboard_metric_options", metric_options)

----------------------------------------------------------------------------
(* The overview cards: the period-over-period change ranking.              *)

\* variant: January falls back to December of the same year
PreviousPeriodSameYear(year, month) ==
    IF month = 1 THEN [year |-> year, month |-> 12]
    ELSE [year |-> year, month |-> month - 1]

\* _render_overview_cards: the month before (year, month)
PreviousPeriod(year, month) ==
    IF month = 1 THEN [year |-> year - 1, month |-> 12]
    ELSE [year |-> year, month |-> month - 1]

\* all_data[(all_data['year'] == prev_year) & (all_data['month'] == prev_month)]
PrevData(all_rows, year, month) ==
    LET prev == PreviousPeriod(year, month)
    IN PeriodRows(all_rows, prev.year, prev.month)

\* variant: guards on prev_val != 0, as utils.calculate_percentage_change does
ChangePctNonZeroGuard(change, prev_val) ==
    IF prev_val > 0 THEN Rat(change * 100, prev_val)
    ELSE IF prev_val < 0 THEN Rat(-(change * 100), -prev_val)
    ELSE RatZero

\* variant: the current value as a percentage of the previous one
ChangePctOfPrevious(change, prev_val) ==
    IF prev_val > 0 THEN Rat((change + prev_val) * 100, prev_val) ELSE RatZero

\* variant: divides by max(prev_val, 1) instead of returning 0
ChangePctFloorOne(change, prev_val) ==
    IF prev_val > 0 THEN Rat(change * 100, prev_val) ELSE Rat(change * 100, 1)

\* variant: the quotient change / prev_val, not scaled to a percentage
ChangePctUnscaled(change, prev_val) ==
    IF prev_val > 0 THEN Rat(change, prev_val) ELSE RatZero

\* ((change / prev_val) * 100) if prev_val > 0 else 0
ChangePct(change, prev_val) ==
    IF prev_val > 0 THEN Rat(change * 100, prev_val) ELSE RatZero

\* the column the district ranking reads for the selected metric
DistrictRankColumn(selected_metric) ==
    IF selected_metric = "all cases incidence" THEN "all cases incidence"
    ELSE "all cases"

\* the column the sector ranking reads for the selected metric
SectorRankColumn(selected_metric) ==
    IF selected_metric = "incidence" THEN "incidence"
    ELSE "Simple malaria cases"

\* prev_data[prev_data['District'] == district] if not prev_data.empty
PrevDistrict(prev_data, district) ==
    LET Same(r) == r["District"] = district
    IN IF Len(prev_data) > 0 THEN SelectSeq(prev_data, Same) ELSE <<>>

\* variant: matches the previous row on the sector name alone
PrevSectorBySectorOnly(prev_data, sector_row) ==
    LET Same(r) == r["Sector"] = sector_row["Sector"]
    IN IF Len(prev_data) > 0 THEN SelectSeq(prev_data, Same) ELSE <<>>

\* prev_data[(prev_data['Sector'] == row['Sector']) &
\*           (prev_data['District'] == row['District'])] if not prev_data.empty
PrevSector(prev_data, sector_row) ==
    LET Same(r) == r["Sector"] = sector_row["Sector"]
                   /\ r["District"] = sector_row["District"]
    IN IF Len(prev_data) > 0 THEN SelectSeq(prev_data, Same) ELSE <<>>

\* variant: a missing previous row counts as a previous value of 0
PrevValZeroDefault(prev_rows, col, current_val) ==
    IF Len(prev_rows) > 0 THEN prev_rows[1][col] ELSE 0

\* prev[col].iloc[0] if not prev.empty else current_val
PrevVal(prev_rows, col, current_val) ==
    IF Len(prev_rows) > 0 THEN prev_rows[1][col] ELSE current_val

\* change = current_val - prev_val
Change(current_val, prev_val) == current_val - prev_val

\* one record of district_changes, with the loop's current_val and prev_val
DistrictChange(current_data, prev_data, selected_metric, district) ==
    LET Same(r) == r["District"] = district
        current_district == SelectSeq(current_data, Same)
        prev_district == PrevDistrict(prev_data, district)
        col == DistrictRankColumn(selected_metric)
        current_val == current_district[1][col]
        prev_val == PrevVal(prev_district, col, current_val)
        change == Change(current_val, prev_val)
    IN [District |-> district, change |-> change,
        change_pct |-> ChangePct(change, prev_val),
        metric_name |-> IF col = "all cases incidence" THEN "incidence" ELSE "cases",
        current_val |-> current_val, prev_val |-> prev_val]

RECURSIVE DistrictChangesFrom(_, _, _, _)
\* for district in current_data['District'].unique():
\*     district_changes.append({...})
DistrictChangesFrom(districts, current_data, prev_data, selected_metric) ==
    IF Len(districts) = 0 THEN <<>>
    ELSE <<DistrictChange(current_data, prev_data, selected_metric, Head(districts))>>
         \o DistrictChangesFrom(Tail(districts), current_data, prev_data, selected_metric)

\* district_changes, as the DataFrame df_changes
DistrictChanges(current_data, prev_data, selected_metric) ==
    DistrictChangesFrom(Unique(Column(current_data, "District")),
                        current_data, prev_data, selected_metric)

\* sector_row.get('sector_display', sector_row.get('Sector', 'Unknown'))
SectorName(sector_row) ==
    IF "sector_display" \in DOMAIN sector_row THEN sector_row["sector_display"]
    ELSE IF "Sector" \in DOMAIN sector_row THEN sector_row["Sector"]
    ELSE "Unknown"

\* one record of sector_changes, with the loop's current_val and prev_val
SectorChange(prev_data, selected_metric, sector_row) ==
    LET prev_sector_data == PrevSector(prev_data, sector_row)
        col == SectorRankColumn(selected_metric)
        current_val == sector_row[col]
        prev_val == PrevVal(prev_sector_data, col, current_val)
        change == Change(current_val, prev_val)
    IN [Sector |-> SectorName(sector_row), change |-> change,
        change_pct |-> ChangePct(change, prev_val),
        metric_name |-> IF col = "incidence" THEN "incidence" ELSE "cases",
        current_val |-> current_val, prev_val |-> prev_val]

RECURSIVE SectorChanges(_, _, _)
\* for _, sector_row in current_data.iterrows():
\*     sector_changes.append({...})
SectorChanges(current_data, prev_data, selected_metric) ==
    IF Len(current_data) = 0 THEN <<>>
    ELSE <<SectorChange(prev_data, selected_metric, Head(current_data))>>
         \o SectorChanges(Tail(current_data), prev_data, selected_metric)

RemoveAt(s, i) == SubSeq(s, 1, i - 1) \o SubSeq(s, i + 1, Len(s))

\* variant: keep='last', the last row holding the largest change
FirstLargestKeepLast(records) ==
    CHOOSE i \in 1..Len(records) :
        /\ \A j \in 1..Len(records) : records[j].change <= records[i].change
        /\ \A j \in (i + 1)..Len(records) : records[j].change < records[i].change

\* the first row holding the largest change
FirstLargest(records) ==
    CHOOSE i \in 1..Len(records) :
        /\ \A j \in 1..Len(records) : records[j].change <= records[i].change
        /\ \A j \in 1..(i - 1) : records[j].change < records[i].change

\* the first row holding the smallest change
FirstSmallest(records) ==
    CHOOSE i \in 1..Len(records) :
        /\ \A j \in 1..Len(records) : records[j].change >= records[i].change
        /\ \A j \in 1..(i - 1) : records[j].change > records[i].change

RECURSIVE NLargest(_, _)
\* df_changes.nlargest(n, 'change'), keep='first': the n rows of largest
\* change, largest first, rows of equal change in their original order
NLargest(n, records) ==
    IF n <= 0 \/ Len(records) = 0 THEN <<>>
    ELSE LET i == FirstLargest(records)
         IN <<records[i]>> \o NLargest(n - 1, RemoveAt(records, i))

\* variant: sort_values('change', ascending=False).tail(n), the n rows of
\* smallest change in descending order
NSmallestDescending(n, records) ==
    LET sorted == NLargest(Len(records), records)
    IN SubSeq(sorted, Len(sorted) - Min(n, Len(sorted)) + 1, Len(sorted))

RECURSIVE NSmallest(_, _)
\* df_changes.nsmallest(n, 'change'), keep='first'
NSmallest(n, records) ==
    IF n <= 0 \/ Len(records) = 0 THEN <<>>
    ELSE LET i == FirstSmallest(records)
         IN <<records[i]>> \o NSmallest(n - 1, RemoveAt(records, i))

\* variant: the whole frame sorted, not cut to three rows
TopIncreasesUncut(df_changes) == NLargest(Len(df_changes), df_changes)

\* top_increases = df_changes.nlargest(3, 'change') if not df_changes.empty
TopIncreases(df_changes) == NLargest(TopK, df_changes)

\* variant: the decreases taken with nlargest, as the increases are
TopDecreasesLargest(df_changes) == NLargest(TopK, df_changes)

\* top_decreases = df_changes.nsmallest(3, 'change') if not df_changes.empty
TopDecreases(df_changes) == NSmallest(TopK, df_changes)

\* the columns of the two aggregate cards of an admin level
CasesColumn(level) == IF level = "districts" THEN "all cases" ELSE "Simple malaria cases"

IncidenceColumn(level) == IF level = "districts" THEN "all cases incidence" ELSE "incidence"

\* variant: the previous total is summed over the entities of the current
\* period only
CasesChangeMatchedOnly(level, current_data, prev_data) ==
    LET name == IF level = "districts" THEN "District" ELSE "Sector"
        InCurrent(r) == \E i \in 1..Len(current_data) :
                            /\ current_data[i][name] = r[name]
                            /\ current_data[i]["District"] = r["District"]
        matched == SelectSeq(prev_data, InCurrent)
        current_total == ColumnSum(current_data, CasesColumn(level))
        prev_total == IF Len(matched) > 0 THEN ColumnSum(matched, CasesColumn(level))
                      ELSE current_total
    IN current_total - prev_total

\* current_total_cases - prev_total_cases
CasesChange(level, current_data, prev_data) ==
    LET current_total == ColumnSum(current_data, CasesColumn(level))
        prev_total == IF Len(prev_data) > 0 THEN ColumnSum(prev_data, CasesColumn(level))
                      ELSE current_total
    IN current_total - prev_total

\* current_incidence - prev_incidence
IncidenceChange(level, current_data, prev_data) ==
    LET current_incidence == ColumnMean(current_data, IncidenceColumn(level))
        prev_incidence == IF Len(prev_data) > 0
                          THEN ColumnMean(prev_data, IncidenceColumn(level))
                          ELSE current_incidence
    IN RatSub(current_incidence, prev_incidence)

\* what a run has put on the page; page = "none" before the first run
NoView ==
    [page |-> "none", error |-> "", admin_level |-> "",
     selected_year |-> 0, selected_month |-> 0, selected_metric |-> "",
     current_data |-> <<>>, prev_year |-> 0, prev_month |-> 0, prev_data |-> <<>>,
     cases_change |-> 0, incidence_change |-> RatZero,
     changes |-> <<>>, top_increases |-> <<>>, top_decreases |-> <<>>,
     cards |-> FALSE, map |-> FALSE, chart |-> FALSE, clicked |-> ""]

\* variant: the ranking sorts the current-period table in place and keeps
\* its records in the table the page holds
RenderOverviewCardsInPlace(state, shown, current_data, all_rows, year, month) ==
    LET prev == PreviousPeriod(year, month)
        prev_data == PrevData(all_rows, year, month)
        selected_metric == IF "dashboard_metric" \in DOMAIN state
                           THEN state["dashboard_metric"] ELSE "None"
        level == state["admin_level"]
        df_changes == IF level = "districts"
                      THEN DistrictChanges(current_data, prev_data, selected_metric)
                      ELSE SectorChanges(current_data, prev_data, selected_metric)
    IN [shown EXCEPT
          !.cards = TRUE,
          !.current_data = Reverse(current_data),
          !.prev_year = prev.year, !.prev_month = prev.month, !.prev_data = prev_data,
          !.cases_change = CasesChange(level, current_data, prev_data),
          !.incidence_change = IncidenceChange(level, current_data, prev_data),
          !.changes = df_changes,
          !.top_increases = TopIncreases(df_changes),
          !.top_decreases = TopDecreases(df_changes)]

\* _render_overview_cards with _render_district_overview_cards or
\* _render_sector_overview_cards
RenderOverviewCards(state, shown, current_data, all_rows, year, month) ==
    LET prev == PreviousPeriod(year, month)
        prev_data == PrevData(all_rows, year, month)
        selected_metric == IF "dashboard_metric" \in DOMAIN state
                           THEN state["dashboard_metric"] ELSE "None"
        level == state["admin_level"]
        df_changes == IF level = "districts"
                      THEN DistrictChanges(current_data, prev_data, selected_metric)
                      ELSE SectorChanges(current_data, prev_data, selected_metric)
    IN [shown EXCEPT
          !.cards = TRUE,
          !.prev_year = prev.year, !.prev_month = prev.month, !.prev_data = prev_data,
          !.cases_change = CasesChange(level, current_data, prev_data),
          !.incidence_change = IncidenceChange(level, current_data, prev_data),
          !.changes = df_changes,
          !.top_increases = TopIncreases(df_changes),
          !.top_decreases = TopDecreases(df_changes)]

\* variant: reports the empty period and goes on to the visualisations
RenderDashboardPageNoReturn(state, data, selected_year, selected_month, selected_metric) ==
    LET current_data == PeriodRows(data.rows, selected_year, selected_month)
        shown == [NoView EXCEPT !.page = "dashboard", !.admin_level = state["admin_level"],
                                !.selected_year = selected_year,
                                !.selected_month = selected_month,
                                !.selected_metric = selected_metric,
                                !.current_data = current_data]
    IN IF Len(current_data) = 0
       THEN [shown EXCEPT !.error = "No data available for the selected period.",
                          !.map = TRUE, !.chart = TRUE]
       ELSE [RenderOverviewCards(state, shown, current_data, data.rows,
                                 selected_year, selected_month)
               EXCEPT !.map = TRUE, !.chart = TRUE]

\* _render_dashboard_page after the filters returned their selection
RenderDashboardPage(state, data, selected_year, selected_month, selected_metric) ==
    LET current_data == PeriodRows(data.rows, selected_year, selected_month)
        shown == [NoView EXCEPT !.page = "dashboard", !.admin_level = state["admin_level"],
                                !.selected_year = selected_year,
                                !.selected_month = selected_month,
                                !.selected_metric = selected_metric,
                                !.current_data = current_data]
    IN IF Len(current_data) = 0
       THEN [shown EXCEPT !.error = "No data available for the selected period."]
       ELSE [RenderOverviewCards(state, shown, current_data, data.rows,
                                 selected_year, selected_month)
               EXCEPT !.map = TRUE, !.chart = TRUE]

\* the largest value of a column, NaN for an empty column
MaxOf(values) ==
    IF Len(values) = 0 THEN NoSelection
    ELSE CHOOSE x \in Range(values) : \A y \in Range(values) : y <= x

\* variant: reads the filters stored for backward compatibility, whichever
\* admin level stored them
StoredFilterKeysAnyLevel(level) ==
    [metric |-> "dashboard_metric", year |-> "dashboard_year",
     month |-> "dashboard_month"]

\* the session-state keys the trends page reads for an admin level
StoredFilterKeys(level) ==
    [metric |-> "dashboard_metric_" \o level, year |-> "dashboard_year_" \o level,
     month |-> "dashboard_month_" \o level]

\* _render_trends_page: the filters the page works with, and the rows of
\* its priority analysis
RenderTrendsPage(state, data) ==
    LET level == state["admin_level"]
        available_metrics == GetAvailableMetrics(data)
        keys == StoredFilterKeys(level)
        stored == /\ keys.metric \in DOMAIN state
                  /\ state[keys.metric] \in Range(MetricKeys(available_metrics))
        default_year == MaxOf(Column(data.rows, "year"))
        InYear(r) == r["year"] = default_year
        selected_year == IF stored THEN state[keys.year] ELSE default_year
        selected_month == IF stored THEN state[keys.month]
                          ELSE MaxOf(Column(SelectSeq(data.rows, InYear), "month"))
        selected_metric == IF stored THEN state[keys.metric]
                           ELSE MetricKeys(available_metrics)[1]
    IN [NoView EXCEPT !.page = "trends", !.admin_level = level,
                      !.selected_year = selected_year,
                      !.selected_month = selected_month,
                      !.selected_metric = selected_metric,
                      !.current_data = PeriodRows(data.rows, selected_year, selected_month)]

\* variant: a third tab, for which render_page has no branch
NavigationTabsWithMap == <<"dashboard", "trends", "map">>

\* the keys of navigation_tabs, in the order of the buttons
NavigationTabs == <<"dashboard", "trends">>

\* a run that st.rerun() aborted in the sidebar, after the button of
\* page_key returned True, has put no page up
RerunView(admin_level, page_key) ==
    [NoView EXCEPT !.page = "rerun", !.admin_level = admin_level, !.clicked = page_key]

\* a run that st.stop() ended in load_data shows the failure only
StoppedView(admin_level) ==
    [NoView EXCEPT !.page = "stopped", !.admin_level = admin_level,
                   !.error = "Failed to load data. Please check your data files."]

----------------------------------------------------------------------------
(* The state machine: one action is one run of the script.                 *)

\* no function of utils.py has been called
NoCall == [fn |-> "none", args |-> <<>>, result |-> 0]

Init ==
    /\ \E seed \in Seeds :
          /\ district_table = DistrictTable(seed)
          /\ sector_table = SectorTable(seed)
    /\ session_state = InitializeSessionState(EmptyState)
    /\ view = NoView
    /\ utils_call = NoCall

\* render_sidebar up to the navigation buttons: the radio's choice is stored
Sidebar(state, admin_level) ==
    Put(InitializeSessionState(state), "admin_level", admin_level)

\* main(): the run in which the sidebar radio returns admin_level, no
\* navigation button is pressed, the loader returns a table and the current
\* page is the dashboard.  Each of the three filter selectboxes returns one
\* of its options (its default or the user's choice).
RunDashboard(admin_level) ==
    LET s1 == Sidebar(session_state, admin_level)
        data == LoadData(s1)
        metric_options == GetAvailableMetrics(data)
    IN /\ data # NoData
       /\ s1["current_page"] = "dashboard"
       /\ \E selected_year \in Selectbox(AvailableYears(data)) :
          \E selected_month \in Selectbox(AvailableMonths(data, selected_year)) :
          \E selected_metric \in Selectbox(MetricKeys(metric_options)) :
             LET s2 == StoreFilters(s1, selected_year, selected_month,
                                    selected_metric, metric_options)
             IN /\ session_state' = s2
                /\ view' = RenderDashboardPage(s2, data, selected_year,
                                               selected_month, selected_metric)
       /\ UNCHANGED <<district_table, sector_table, utils_call>>

Next == \E admin_level \in Range(AdminLevels) : RunDashboard(admin_level)

Spec == Init /\ [][Next]_vars

----------------------------------------------------------------------------
(* Navigation: the runs of the script over both pages, with the            *)
(* navigation buttons and with loaders that fail or return no rows.        *)

\* the datasets of the navigation runs: two entities dated January 2024,
\* and one entity dated March 2024
NavSeeds ==
    {[period |-> BasePeriod,
      ents |-> <<[cur |-> 1, prev |-> <<0>>], [cur |-> 1, prev |-> <<>>]>>],
     [period |-> [year |-> 2024, month |-> 3],
      ents |-> <<[cur |-> 1, prev |-> <<2>>]>>]}

NavInit ==
    /\ \E seed \in NavSeeds :
          /\ district_table \in {NoData, EmptyDistrictTable, DistrictTable(seed)}
          /\ sector_table \in {NoData, EmptySectorTable, SectorTable(seed)}
    /\ session_state = InitializeSessionState(EmptyState)
    /\ view = NoView
    /\ utils_call = NoCall

\* what the sidebar radio can return in the next run: the run that follows
\* st.rerun() starts with no interaction, so the radio keeps its value
RadioChoices ==
    IF view.page = "rerun" THEN {session_state["admin_level"]} ELSE Range(AdminLevels)

\* variant: st.rerun() before the page is stored
ClickNavigationRerunFirst(admin_level, page_key) ==
    /\ view.page # "rerun"
    /\ session_state' = Sidebar(session_state, admin_level)
    /\ view' = RerunView(admin_level, page_key)
    /\ UNCHANGED <<district_table, sector_table, utils_call>>

\* main(): the run in which the navigation button of page_key is pressed:
\* the page is stored and st.rerun() ends the run in the sidebar
ClickNavigation(admin_level, page_key) ==
    /\ view.page # "rerun"
    /\ session_state' = Put(Sidebar(session_state, admin_level), "current_page", page_key)
    /\ view' = RerunView(admin_level, page_key)
    /\ UNCHANGED <<district_table, sector_table, utils_call>>

\* variant: no st.stop(), the run goes on to render_page
RunStoppedNoStop(admin_level) ==
    LET s1 == Sidebar(session_state, admin_level)
    IN /\ LoadData(s1) = NoData
       /\ session_state' = s1
       /\ view' = [StoppedView(admin_level) EXCEPT !.page = s1["current_page"]]
       /\ UNCHANGED <<district_table, sector_table, utils_call>>

\* main(): the run in which no button is pressed and the loader of the
\* selected admin level returns None: st.error and st.stop() in load_data
RunStopped(admin_level) ==
    LET s1 == Sidebar(session_state, admin_level)
    IN /\ LoadData(s1) = NoData
       /\ session_state' = s1
       /\ view' = StoppedView(admin_level)
       /\ UNCHANGED <<district_table, sector_table, utils_call>>

\* main(): the run in which no button is pressed, the loader returns a
\* table and the current page is the trends page
RunTrends(admin_level) ==
    LET s1 == Sidebar(session_state, admin_level)
        data == LoadData(s1)
    IN /\ data # NoData
       /\ s1["current_page"] = "trends"
       /\ session_state' = s1
       /\ view' = RenderTrendsPage(s1, data)
       /\ UNCHANGED <<district_table, sector_table, utils_call>>

NavNext ==
    \/ \E admin_level \in RadioChoices, page_key \in Range(NavigationTabs) :
          ClickNavigation(admin_level, page_key)
    \/ \E admin_level \in RadioChoices : RunStopped(admin_level)
    \/ \E admin_level \in RadioChoices : RunDashboard(admin_level)
    \/ \E admin_level \in RadioChoices : RunTrends(admin_level)

NavSpec == NavInit /\ [][NavNext]_vars

----------------------------------------------------------------------------
(* The runs of the dashboard over two entities A and B, each with a value  *)
(* of ScenarioVals in May and in June 2024.                                *)

ScenarioVals == {80, 100, 120}

ScenarioDistrictRow(name, m, v) ==
    [District |-> name, year |-> 2024, month |-> m]
        @@ ("all cases" :> v) @@ ("Severe cases/Deaths" :> 0)
        @@ ("all cases incidence" :> v)

ScenarioSectorRow(name, m, v) ==
    [Sector |-> name, District |-> "Gasabo", year |-> 2024, month |-> m]
        @@ ("Simple malaria cases" :> v) @@ ("incidence" :> v)

ScenarioRows(vals, Row(_, _, _)) ==
    << Row("A", 5, vals.prev_a), Row("B", 5, vals.prev_b),
       Row("A", 6, vals.cur_a), Row("B", 6, vals.cur_b) >>

ScenarioInit ==
    /\ \E vals \in [cur_a : ScenarioVals, cur_b : ScenarioVals,
                     prev_a : ScenarioVals, prev_b : ScenarioVals] :
          /\ district_table =
                [columns |-> DistrictColumns, rows |-> ScenarioRows(vals, ScenarioDistrictRow)]
          /\ sector_table =
                [columns |-> SectorColumns, rows |-> ScenarioRows(vals, ScenarioSectorRow)]
    /\ session_state = InitializeSessionState(EmptyState)
    /\ view = NoView
    /\ utils_call = NoCall

ScenarioSpec == ScenarioInit /\ [][Next]_vars

----------------------------------------------------------------------------
(* The functions of src/utils.py, called on their own.                     *)

Amounts == (-MaxAmount)..MaxAmount

Divisors == ((-MaxDivisor)..MaxDivisor) \cup {-100, 100}

MonthInputs == (-MaxMonth)..MaxMonth

UtilsInit ==
    /\ district_table = NoData
    /\ sector_table = NoData
    /\ session_state = EmptyState
    /\ view = NoView
    /\ utils_call = NoCall

CallCalculatePercentageChange(current, previous) ==
    /\ utils_call' = [fn |-> "calculate_percentage_change",
                      args |-> <<current, previous>>,
                      result |-> CalculatePercentageChange(current, previous)]
    /\ UNCHANGED <<district_table, sector_table, session_state, view>>

CallGetMonthName(month) ==
    /\ utils_call' = [fn |-> "get_month_name", args |-> <<month>>,
                      result |-> GetMonthName(month)]
    /\ UNCHANGED <<district_table, sector_table, session_state, view>>

UtilsNext ==
    \/ \E current \in Amounts, previous \in Divisors :
          CallCalculatePercentageChange(current, previous)
    \/ \E month \in MonthInputs : CallGetMonthName(month)

UtilsSpec == UtilsInit /\ [][UtilsNext]_vars

----------------------------------------------------------------------------
(* Properties of the change ranking.                                       *)

\* the last run rendered the overview cards
Rendered == view.page = "dashboard" /\ view.error = ""

\* the column a change record was computed on, read off its metric_name
UsedColumn(rec) ==
    IF rec.metric_name = "incidence" THEN IncidenceColumn(view.admin_level)
    ELSE CasesColumn(view.admin_level)

\* the current-period rows of the entity of the k-th change record
CurrentRowsOf(k) ==
    IF view.admin_level = "districts"
    THEN {i \in 1..Len(view.current_data) :
            view.current_data[i]["District"] = view.changes[k].District}
    ELSE {k}

\* the previous-period rows matching the entity of the k-th change record
\* by name: District for a district, Sector and parent District for a sector
PreviousRowsOf(k) ==
    IF view.admin_level = "districts"
    THEN {j \in 1..Len(view.prev_data) :
            view.prev_data[j]["District"] = view.changes[k].District}
    ELSE {j \in 1..Len(view.prev_data) :
            /\ view.prev_data[j]["Sector"] = view.current_data[k]["Sector"]
            /\ view.prev_data[j]["District"] = view.current_data[k]["District"]}

\* the entities of the current-period table, by their identifying names
CurrentEntities ==
    IF view.admin_level = "districts"
    THEN {view.current_data[i]["District"] : i \in 1..Len(view.current_data)}
    ELSE {<<view.current_data[i]["Sector"], view.current_data[i]["District"]>> :
             i \in 1..Len(view.current_data)}

\* C1: every entity of the current-period table has a change record, whose
\* previous value is the value of the previous-period row matching the
\* entity by name, and the current value itself when there is no such row,
\* in which case change and change_pct are 0.
C1_PreviousValueByName ==
    Rendered =>
        /\ Len(view.changes) = Cardinality(CurrentEntities)
        /\ \A i \in 1..Len(view.current_data) :
             \E k \in 1..Len(view.changes) : i \in CurrentRowsOf(k)
        /\ \A k \in 1..Len(view.changes) :
             LET rec == view.changes[k]
             IN /\ \E i \in CurrentRowsOf(k) :
                      rec.current_val = view.current_data[i][UsedColumn(rec)]
                /\ IF PreviousRowsOf(k) = {}
                   THEN /\ rec.prev_val = rec.current_val
                        /\ rec.change = 0
                        /\ rec.change_pct = RatZero
                   ELSE \E j \in PreviousRowsOf(k) :
                           rec.prev_val = view.prev_data[j][UsedColumn(rec)]

\* a sector ranking over a non-empty previous table in which one sector has
\* no previous row and another has one with a different value
C1_Witness ==
    /\ Rendered
    /\ view.admin_level = "sectors"
    /\ \E k \in 1..Len(view.changes) :
          PreviousRowsOf(k) = {} /\ Len(view.prev_data) > 0
    /\ \E k \in 1..Len(view.changes) :
          PreviousRowsOf(k) # {} /\ view.changes[k].prev_val # view.changes[k].current_val

\* C2: change = current_value - previous_value, and change_pct is
\* change / previous_value * 100 when previous_value > 0 and 0 otherwise.
C2_ChangeAndPercentage ==
    Rendered =>
        \A k \in 1..Len(view.changes) :
            LET rec == view.changes[k]
            IN /\ rec.change = rec.current_val - rec.prev_val
               /\ rec.change_pct.den > 0
               /\ rec.prev_val > 0 =>
                     rec.change_pct.num * rec.prev_val = rec.change * 100 * rec.change_pct.den
               /\ rec.prev_val <= 0 => rec.change_pct = RatZero

\* one ranking holding a record with a positive previous value and a
\* non-zero percentage and a record with a negative previous value and a
\* non-zero change
C2_Witness ==
    /\ Rendered
    /\ \E k \in 1..Len(view.changes) :
          view.changes[k].prev_val > 0 /\ view.changes[k].change_pct.num # 0
    /\ \E k \in 1..Len(view.changes) :
          view.changes[k].prev_val < 0 /\ view.changes[k].change # 0

\* C3: the change records are computed on the column of the metric selected
\* in the Primary Metric filter.
C3_RankedOnSelectedMetric ==
    Rendered =>
        /\ view.selected_metric \in Range(MetricKeys(GetAvailableMetrics(LoadData(session_state))))
        /\ \A k \in 1..Len(view.changes) :
             LET rec == view.changes[k]
             IN /\ \E i \in CurrentRowsOf(k) :
                      rec.current_val = view.current_data[i][view.selected_metric]
                /\ IF PreviousRowsOf(k) = {}
                   THEN rec.prev_val = rec.current_val
                   ELSE \E j \in PreviousRowsOf(k) :
                           rec.prev_val = view.prev_data[j][view.selected_metric]

\* how many times the record x occurs at the positions P of the list s
Occurrences(s, P, x) == Cardinality({p \in P : s[p] = x})

\* the list picked holds exactly the records at the positions chosen of the
\* list records
HoldsExactly(picked, records, chosen) ==
    /\ Len(picked) = Cardinality(chosen)
    /\ \A x \in Range(picked) \cup Range(records) :
          Occurrences(picked, 1..Len(picked), x) = Occurrences(records, chosen, x)

\* C4: increases holds exactly min(top_k, n) records, none left out has a
\* larger change than one taken, and of two records of equal change the
\* earlier one is taken first; decreases likewise with the smallest changes.
C4_TopKSelection ==
    Rendered =>
        LET records == view.changes
            n == Len(records)
            all == 1..n
        IN /\ \E taken \in SUBSET all :
                /\ Cardinality(taken) = Min(TopK, n)
                /\ HoldsExactly(view.top_increases, records, taken)
                /\ \A i \in taken, o \in all \ taken :
                      /\ records[o].change <= records[i].change
                      /\ records[o].change = records[i].change => i < o
           /\ \E taken \in SUBSET all :
                /\ Cardinality(taken) = Min(TopK, n)
                /\ HoldsExactly(view.top_decreases, records, taken)
                /\ \A i \in taken, o \in all \ taken :
                      /\ records[o].change >= records[i].change
                      /\ records[o].change = records[i].change => i < o

\* more than top_k records, and the cut of both lists falls between two
\* records of equal change
C4_Witness ==
    /\ Rendered
    /\ Len(view.changes) > TopK
    /\ \E o \in 1..Len(view.changes) :
          /\ view.changes[o].change = view.top_increases[TopK].change
          /\ view.changes[o] \notin Range(view.top_increases)
    /\ \E o \in 1..Len(view.changes) :
          /\ view.changes[o].change = view.top_decreases[TopK].change
          /\ view.changes[o] \notin Range(view.top_decreases)
    /\ view.top_increases[1].change > view.top_increases[TopK].change

\* C5: increases is ordered by change descending, decreases ascending.
C5_RankingOrder ==
    Rendered =>
        /\ \A p \in 1..(Len(view.top_increases) - 1) :
              view.top_increases[p].change >= view.top_increases[p + 1].change
        /\ \A p \in 1..(Len(view.top_decreases) - 1) :
              view.top_decreases[p].change <= view.top_decreases[p + 1].change

\* both lists full, with three different changes each
C5_Witness ==
    /\ Rendered
    /\ Len(view.top_increases) = 3
    /\ view.top_increases[1].change > view.top_increases[2].change
    /\ view.top_increases[2].change > view.top_increases[3].change
    /\ Len(view.top_decreases) = 3
    /\ view.top_decreases[1].change < view.top_decreases[2].change
    /\ view.top_decreases[2].change < view.top_decreases[3].change

\* C6: each list holds at most 3 records, exactly min(3, number of entities
\* of the current period).
C6_AtMostThree ==
    Rendered =>
        /\ Len(view.top_increases) <= 3
        /\ Len(view.top_decreases) <= 3
        /\ Len(view.top_increases) = Min(3, Cardinality(CurrentEntities))
        /\ Len(view.top_decreases) = Min(3, Cardinality(CurrentEntities))

\* more than three entities in the current period
C6_Witness ==
    /\ Rendered
    /\ Cardinality(CurrentEntities) > 3
    /\ Len(view.top_increases) = 3
    /\ Len(view.top_decreases) = 3

\* C7: a record whose previous value equals its current value has change 0
\* and change_pct 0.
C7_EqualValuesNoChange ==
    Rendered =>
        \A k \in 1..Len(view.changes) :
            view.changes[k].prev_val = view.changes[k].current_val =>
                /\ view.changes[k].change = 0
                /\ view.changes[k].change_pct = RatZero

\* a record whose previous value, looked up from its previous row, equals
\* its current value, both negative
C7_Witness ==
    /\ Rendered
    /\ \E k \in 1..Len(view.changes) :
          /\ PreviousRowsOf(k) # {}
          /\ view.changes[k].prev_val = view.changes[k].current_val
          /\ view.changes[k].current_val < 0

\* C8: a record whose previous value is 0 has change_pct 0; change_pct is a
\* fraction of non-zero denominator, non-zero only for a non-zero previous
\* value.
C8_NoDivisionByZero ==
    Rendered =>
        \A k \in 1..Len(view.changes) :
            LET rec == view.changes[k]
            IN /\ rec.change_pct.den # 0
               /\ rec.prev_val = 0 => rec.change_pct = RatZero
               /\ rec.change_pct # RatZero => rec.prev_val # 0

\* a previous value of 0 under a current value that is not
C8_Witness ==
    /\ Rendered
    /\ \E k \in 1..Len(view.changes) :
          /\ view.changes[k].prev_val = 0
          /\ view.changes[k].current_val # 0
          /\ PreviousRowsOf(k) # {}

\* C9: the previous period is the calendar month before the selected one:
\* (year, month - 1) for months 2..12, (year - 1, 12) for January; its month
\* is in 1..12; the previous table is the rows of the loaded table with that
\* year and month.
C9_PreviousPeriod ==
    (Rendered /\ view.selected_month \in 1..12) =>
        LET InPrevious(r) == r["year"] = view.prev_year /\ r["month"] = view.prev_month
        IN /\ view.prev_month \in 1..12
           /\ view.selected_month = 1 =>
                 view.prev_year = view.selected_year - 1 /\ view.prev_month = 12
           /\ view.selected_month \in 2..12 =>
                 view.prev_year = view.selected_year
                    /\ view.prev_month = view.selected_month - 1
           /\ PeriodIndex(view.prev_year, view.prev_month)
                 = PeriodIndex(view.selected_year, view.selected_month) - 1
           /\ view.prev_data = SelectSeq(LoadData(session_state).rows, InPrevious)

\* January selected, and the December before it has rows
C9_Witness ==
    /\ Rendered
    /\ view.selected_month = 1
    /\ view.prev_month = 12
    /\ Len(view.prev_data) > 0
    /\ Len(view.prev_data) < Len(LoadData(session_state).rows)

\* C10: over an empty previous table every change and change_pct is 0 and
\* both lists are the first min(top_k, n) records in their original order.
C10_EmptyPreviousTable ==
    (Rendered /\ Len(view.prev_data) = 0) =>
        /\ \A k \in 1..Len(view.changes) :
              view.changes[k].change = 0 /\ view.changes[k].change_pct = RatZero
        /\ view.top_increases = SubSeq(view.changes, 1, Min(TopK, Len(view.changes)))
        /\ view.top_decreases = SubSeq(view.changes, 1, Min(TopK, Len(view.changes)))

\* an empty previous table under more than top_k current entities of
\* non-zero value
C10_Witness ==
    /\ Rendered
    /\ Len(view.prev_data) = 0
    /\ Len(view.changes) > TopK
    /\ \A k \in 1..Len(view.changes) : view.changes[k].current_val # 0

----------------------------------------------------------------------------
(* Properties of the runs of the script.                                   *)

\* the rows of the loaded table dated with the period the last run selected
SelectedPeriodRows ==
    PeriodRows(LoadData(session_state).rows, view.selected_year, view.selected_month)

\* C11: a dashboard run whose selected (year, month) has no rows reports
\* 'No data available for the selected period.' and renders no overview
\* cards, no change ranking, no map and no top-10 chart.
C11_EmptyPeriodReported ==
    (view.page = "dashboard" /\ Len(SelectedPeriodRows) = 0) =>
        /\ view.error = "No data available for the selected period."
        /\ ~view.cards /\ ~view.map /\ ~view.chart
        /\ view.changes = <<>>
        /\ view.top_increases = <<>> /\ view.top_decreases = <<>>

\* a dashboard run over a table of no rows, after the filters stored the
\* metric they offered
C11_Witness ==
    /\ view.page = "dashboard"
    /\ Len(LoadData(session_state).rows) = 0
    /\ view.selected_year = NoSelection
    /\ view.error # ""
    /\ session_state["dashboard_metric"] = view.selected_metric

\* C12: a run that renders the overview cards leaves both loaded tables as
\* they were, leaves in st.session_state exactly what the sidebar and the
\* filters of that run stored, and leaves the current-period and
\* previous-period tables equal to the rows of their periods in the loaded
\* table; the change records are those of this run's tables and metric.
C12_NoSideEffects ==
    [][(view'.page = "dashboard" /\ view'.cards) =>
          LET data == LoadData(session_state')
          IN /\ district_table' = district_table
             /\ sector_table' = sector_table
             /\ session_state' =
                   StoreFilters(Sidebar(session_state, view'.admin_level),
                                view'.selected_year, view'.selected_month,
                                view'.selected_metric, GetAvailableMetrics(data))
             /\ view'.current_data =
                   PeriodRows(data.rows, view'.selected_year, view'.selected_month)
             /\ view'.prev_data =
                   PeriodRows(data.rows, view'.prev_year, view'.prev_month)
             /\ Len(view'.changes) = Len(view'.current_data)
             /\ \A k \in 1..Len(view'.changes) :
                   view'.changes[k].current_val \in
                      {view'.current_data[k][c] : c \in {CasesColumn(view'.admin_level),
                                                        IncidenceColumn(view'.admin_level)}}
      ]_vars

\* the overview cards rendered a ranking of several records with a change,
\* in a session that already holds the filters of both admin levels
C12_Witness ==
    /\ Rendered
    /\ Len(view.changes) > 1
    /\ \E k \in 1..Len(view.changes) : view.changes[k].change # 0
    /\ view.current_data # Reverse(view.current_data)
    /\ "dashboard_metric_districts" \in DOMAIN session_state
    /\ "dashboard_metric_sectors" \in DOMAIN session_state

\* C13: the first construction sets admin_level to 'districts' and
\* current_page to 'dashboard'; every later run keeps the current_page it
\* finds unless a navigation button is pressed, stores the radio's choice
\* in admin_level, and removes no key of st.session_state and no value
\* stored under a key it does not write.
C13_SessionStateLifecycle ==
    /\ session_state = ("admin_level" :> "districts") @@ ("current_page" :> "dashboard")
    /\ [][/\ DOMAIN session_state \subseteq DOMAIN session_state'
          /\ session_state'["admin_level"] = view'.admin_level
          /\ view'.page # "rerun" =>
                session_state'["current_page"] = session_state["current_page"]
          /\ view'.page \in {"rerun", "stopped", "trends"} =>
                \A k \in DOMAIN session_state \ {"admin_level", "current_page"} :
                    session_state'[k] = session_state[k]
      ]_vars

\* a run on the trends page at the sector level, in a session that holds
\* the filters stored at the district level
C13_Witness ==
    /\ view.page = "trends"
    /\ session_state["current_page"] = "trends"
    /\ session_state["admin_level"] = "sectors"
    /\ "dashboard_metric_districts" \in DOMAIN session_state
    /\ "dashboard_metric_sectors" \notin DOMAIN session_state

\* the column holding the name of an entity of the level last rendered
NameColumn == IF view.admin_level = "districts" THEN "District" ELSE "Sector"

\* the name a change record carries
RecordName(rec) == IF view.admin_level = "districts" THEN rec.District ELSE rec.Sector

\* the last run ranked current = {A: 120, B: 80} against previous =
\* {A: 100, B: 100} on the column its records were computed on
ScenarioGiven ==
    /\ Rendered
    /\ Len(view.current_data) = 2
    /\ Len(view.prev_data) = 2
    /\ LET col == UsedColumn(view.changes[1])
           Value(rows, name) ==
               {rows[i][col] : i \in {j \in 1..Len(rows) : rows[j][NameColumn] = name}}
       IN /\ view.current_data[1][NameColumn] = "A"
          /\ view.current_data[2][NameColumn] = "B"
          /\ Value(view.current_data, "A") = {120}
          /\ Value(view.current_data, "B") = {80}
          /\ Value(view.prev_data, "A") = {100}
          /\ Value(view.prev_data, "B") = {100}

\* the record at position p of a list is the one of name, with the given
\* change and percentage change
IsRecord(list, p, name, change, pct) ==
    /\ RecordName(list[p]) = name
    /\ list[p].change = change
    /\ list[p].change_pct = [num |-> pct, den |-> 1]

\* C16, as stated: for current = {A: 120, B: 80} and previous = {A: 100,
\* B: 100} the increases are [A, +20, +20%] alone and the decreases are
\* [B, -20, -20%] alone.
C16_ScenarioTopOne ==
    ScenarioGiven =>
        /\ Len(view.top_increases) = 1
        /\ IsRecord(view.top_increases, 1, "A", 20, 20)
        /\ Len(view.top_decreases) = 1
        /\ IsRecord(view.top_decreases, 1, "B", -20, -20)

\* C16, amended: for current = {A: 120, B: 80} and previous = {A: 100,
\* B: 100} the cut at three records keeps both: the increases are
\* [A, +20, +20%], [B, -20, -20%] and the decreases are [B, -20, -20%],
\* [A, +20, +20%].
C16_ScenarioTopThree ==
    ScenarioGiven =>
        /\ Len(view.top_increases) = 2
        /\ IsRecord(view.top_increases, 1, "A", 20, 20)
        /\ IsRecord(view.top_increases, 2, "B", -20, -20)
        /\ Len(view.top_decreases) = 2
        /\ IsRecord(view.top_decreases, 1, "B", -20, -20)
        /\ IsRecord(view.top_decreases, 2, "A", 20, 20)

\* the scenario ranked at the district level on 'all cases'
C16_Witness ==
    /\ ScenarioGiven
    /\ view.admin_level = "districts"
    /\ view.selected_metric = "all cases"
    /\ view.changes[1].current_val = 120

\* the admin level that is not the given one
OtherLevel(level) == IF level = "districts" THEN "sectors" ELSE "districts"

\* the period is the latest of the rows: the latest year, and the latest
\* month of that year; no period for no rows
IsLatestPeriod(rows, year, month) ==
    IF Len(rows) = 0 THEN year = NoSelection /\ month = NoSelection
    ELSE /\ \E i \in 1..Len(rows) : rows[i]["year"] = year /\ rows[i]["month"] = month
         /\ \A i \in 1..Len(rows) :
               \/ rows[i]["year"] < year
               \/ rows[i]["year"] = year /\ rows[i]["month"] <= month

\* C17: the metric of the trends page is a key of _get_available_metrics
\* for the table of the active admin level; the page works with the year,
\* month and metric stored for that level when a valid metric is stored for
\* it, and otherwise with the latest year, the latest month of that year
\* and the first available metric; it never takes the metric stored for
\* the other level.
C17_TrendsMetricValid ==
    view.page = "trends" =>
        LET level == session_state["admin_level"]
            data == LoadData(session_state)
            available == Range(MetricKeys(GetAvailableMetrics(data)))
            mine == "dashboard_metric_" \o level
            theirs == "dashboard_metric_" \o OtherLevel(level)
        IN /\ view.admin_level = level
           /\ view.selected_metric \in available
           /\ IF mine \in DOMAIN session_state /\ session_state[mine] \in available
              THEN /\ view.selected_metric = session_state[mine]
                   /\ view.selected_year = session_state["dashboard_year_" \o level]
                   /\ view.selected_month = session_state["dashboard_month_" \o level]
              ELSE /\ view.selected_metric = GetAvailableMetrics(data)[1].key
                   /\ IsLatestPeriod(data.rows, view.selected_year, view.selected_month)
           /\ theirs \in DOMAIN session_state =>
                 view.selected_metric # session_state[theirs]

\* the trends page of the districts works with the filters stored for the
\* districts, not the first metric and not the latest period, while the
\* filters stored last are those of the sectors
C17_Witness ==
    /\ view.page = "trends"
    /\ view.admin_level = "districts"
    /\ view.selected_metric = "Severe cases/Deaths"
    /\ ~IsLatestPeriod(district_table.rows, view.selected_year, view.selected_month)
    /\ "dashboard_metric_sectors" \in DOMAIN session_state
    /\ session_state["dashboard_metric"] = session_state["dashboard_metric_sectors"]
    /\ session_state["dashboard_year"] # session_state["dashboard_year_districts"]

\* C18: admin_level is 'districts' or 'sectors' and current_page is
\* 'dashboard' or 'trends' in every state, and a run that reaches
\* render_page renders exactly the page current_page names.
C18_LevelAndPageDomains ==
    /\ session_state["admin_level"] \in {"districts", "sectors"}
    /\ session_state["current_page"] \in {"dashboard", "trends"}
    /\ view.page \in {"none", "rerun", "stopped", "dashboard", "trends"}
    /\ view.page \in {"dashboard", "trends"} <=>
          /\ view.page \notin {"none", "rerun"}
          /\ LoadData(session_state) # NoData
    /\ view.page \in {"dashboard", "trends"} => view.page = session_state["current_page"]

\* the trends page rendered at the sector level
C18_Witness ==
    /\ view.page = "trends"
    /\ session_state["current_page"] = "trends"
    /\ session_state["admin_level"] = "sectors"
    /\ Len(view.current_data) > 0

\* C19: a run in which a navigation button is pressed stores the button's
\* page in current_page and ends in the sidebar, with no data loaded and
\* no page rendered; the run after it, when its loader returns a table,
\* renders the page of the button; current_page changes in no other run.
C19_NavigationClick ==
    [][/\ view'.page = "rerun" =>
             /\ session_state'["current_page"] = view'.clicked
             /\ session_state' =
                   Put(Sidebar(session_state, view'.admin_level), "current_page", view'.clicked)
             /\ view' = [NoView EXCEPT !.page = "rerun", !.clicked = view'.clicked,
                                       !.admin_level = view'.admin_level]
       /\ (view.page = "rerun" /\ LoadData(session_state) # NoData) =>
             /\ view'.page = view.clicked
             /\ view'.admin_level = view.admin_level
       /\ session_state'["current_page"] # session_state["current_page"] =>
             view'.page = "rerun"
      ]_vars

\* the trends button was pressed on the dashboard page of the sectors,
\* after its filters were stored
C19_Witness ==
    /\ view.page = "rerun"
    /\ view.clicked = "trends"
    /\ view.admin_level = "sectors"
    /\ session_state["current_page"] = "trends"
    /\ "dashboard_metric_sectors" \in DOMAIN session_state
    /\ sector_table # NoData

\* C20: a run that reaches load_data while the loader of the chosen admin
\* level returns None reports the failure and stops: it renders no page
\* and leaves st.session_state as the sidebar set it.
C20_LoadFailureStops ==
    [][(/\ view'.page # "rerun"
        /\ LoadData(Sidebar(session_state, view'.admin_level)) = NoData) =>
          /\ view'.page = "stopped"
          /\ view'.error = "Failed to load data. Please check your data files."
          /\ ~view'.cards /\ ~view'.map /\ ~view'.chart
          /\ view'.current_data = <<>> /\ view'.changes = <<>>
          /\ session_state' = Sidebar(session_state, view'.admin_level)
      ]_vars

\* the sector loader fails on the trends page, in a session that holds
\* the filters stored at the district level
C20_Witness ==
    /\ view.page = "stopped"
    /\ view.admin_level = "sectors"
    /\ session_state["admin_level"] = "sectors"
    /\ session_state["current_page"] = "trends"
    /\ "dashboard_metric_districts" \in DOMAIN session_state

\* the sum of a column over all the rows of a table
TotalOf(rows, col) ==
    LET Total[n \in 0..Len(rows)] == IF n = 0 THEN 0 ELSE Total[n - 1] + rows[n][col]
    IN Total[Len(rows)]

\* the entities of the previous-period table, by their identifying names
PreviousEntities ==
    IF view.admin_level = "districts"
    THEN {view.prev_data[i]["District"] : i \in 1..Len(view.prev_data)}
    ELSE {<<view.prev_data[i]["Sector"], view.prev_data[i]["District"]>> :
             i \in 1..Len(view.prev_data)}

\* C22: over an empty previous-period table the cases change and the
\* incidence change of the overview are both 0; over a non-empty one the
\* cases change is the sum of the cases of all current rows minus the sum
\* of the cases of all previous rows, whatever entities the two periods hold.
C22_AggregateDeltas ==
    Rendered =>
        LET cases == CasesColumn(view.admin_level)
        IN IF Len(view.prev_data) = 0
           THEN /\ view.cases_change = 0
                /\ view.incidence_change = RatZero
           ELSE view.cases_change =
                    TotalOf(view.current_data, cases) - TotalOf(view.prev_data, cases)

\* each period holds an entity the other does not, and the cases change is
\* not the sum of the changes of the entities
C22_Witness ==
    /\ Rendered
    /\ Len(view.prev_data) > 0
    /\ PreviousEntities \ CurrentEntities # {}
    /\ CurrentEntities \ PreviousEntities # {}
    /\ view.cases_change # 0
    /\ view.selected_metric = CasesColumn(view.admin_level)
    /\ LET Changes[n \in 0..Len(view.changes)] ==
               IF n = 0 THEN 0 ELSE Changes[n - 1] + view.changes[n].change
       IN view.cases_change # Changes[Len(view.changes)]

----------------------------------------------------------------------------
(* Properties of src/utils.py.                                             *)

\* C14: calculate_percentage_change(current, previous) is 0 when previous
\* is 0 and (current - previous) / previous * 100 otherwise; (110, 100)
\* gives 10, (90, 100) gives -10 and (5, 0) gives 0.
C14_PercentageChange ==
    utils_call.fn = "calculate_percentage_change" =>
        LET current == utils_call.args[1]
            previous == utils_call.args[2]
            result == utils_call.result
        IN /\ result.den > 0
           /\ previous = 0 => result = RatZero
           /\ previous # 0 =>
                 result.num * previous = (current - previous) * 100 * result.den
           /\ (current = 110 /\ previous = 100) => result = [num |-> 10, den |-> 1]
           /\ (current = 90 /\ previous = 100) => result = [num |-> -10, den |-> 1]
           /\ (current = 5 /\ previous = 0) => result = [num |-> 0, den |-> 1]

\* a call with a negative previous value and a non-zero result
C14_Witness ==
    /\ utils_call.fn = "calculate_percentage_change"
    /\ utils_call.args[2] < 0
    /\ utils_call.result.num > 0
    /\ utils_call.result.den > 1

\* C15: get_month_name maps 1..12 to 'Jan' .. 'Dec' and every other integer
\* to its decimal text (13 to '13'), which is no month name and is the
\* text of no other integer.
C15_MonthName ==
    utils_call.fn = "get_month_name" =>
        LET month == utils_call.args[1]
            result == utils_call.result
            Abbreviation == [m \in 1..12 |->
                CASE m = 1 -> "Jan" [] m = 2 -> "Feb" [] m = 3 -> "Mar"
                  [] m = 4 -> "Apr" [] m = 5 -> "May" [] m = 6 -> "Jun"
                  [] m = 7 -> "Jul" [] m = 8 -> "Aug" [] m = 9 -> "Sep"
                  [] m = 10 -> "Oct" [] m = 11 -> "Nov" [] m = 12 -> "Dec"]
        IN /\ month \in 1..12 => result = Abbreviation[month]
           /\ month \notin 1..12 =>
                 /\ \A m \in 1..12 : result # Abbreviation[m]
                 /\ \A other \in MonthInputs \ {month} : GetMonthName(other) # result
           /\ month = 13 => result = "13"
           /\ month = 0 => result = "0"
           /\ month = -1 => result = "-1"
           /\ month = MaxMonth => result = NatToString(MaxMonth \div 10) \o NatToString(MaxMonth % 10)

\* a call with the month after December
C15_Witness ==
    /\ utils_call.fn = "get_month_name"
    /\ utils_call.args[1] = 13
    /\ utils_call.result = "13"

\* C21: for every current value and every previous value >= 0, the
\* percentage the ranking computes inline, from change = current - previous
\* under the guard previous > 0, equals what calculate_percentage_change
\* returns for (current, previous).
C21_InlineAgreesWithUtils ==
    (utils_call.fn = "calculate_percentage_change" /\ utils_call.args[2] >= 0) =>
        LET current == utils_call.args[1]
            previous == utils_call.args[2]
        IN utils_call.result = ChangePct(Change(current, previous), previous)

\* a call with a positive previous value above the current one, whose
\* result is no whole number
C21_Witness ==
    /\ utils_call.fn = "calculate_percentage_change"
    /\ utils_call.args[2] > 0
    /\ utils_call.args[1] < utils_call.args[2]
    /\ utils_call.result.num < 0
    /\ utils_call.result.den > 1

====
